---- MODULE Spec2Model ----
(***************************************************************************)
(* A model of the document translation pipeline of appl-doctranslate:     *)
(* the line-based decomposer, batcher and reassembler of                  *)
(* txt_translation.py, the two translation invokers (txt_translation.py   *)
(* and docx_translation.py), the run-based reassembler, and the three     *)
(* per-document drivers.                                                  *)
(*                                                                         *)
(* A Python string is a sequence of one-character strings; the docx       *)
(* separator "---TRANSLATION_SEPARATOR---" is one element of a response.  *)
(***************************************************************************)
EXTENDS Integers, Sequences, FiniteSets, TLC

VARIABLES
    \* line-based decomposition and reassembly (SpecParse)
    text, structures, rebuilt, ppc,
    \* line-based batching (SpecBatch)
    segs, batches, bpc,
    \* one call of a translation invoker (SpecInvoke)
    flavour, texts, outcome, parsed, result, calls, ipc,
    \* one document pass of a driver (Spec)
    kind, input, save_as_pdf, pc, tree, jobs, job, offset, translated, outtext, out, log,
    \* one run of process_translation over a file list (SpecRun)
    file_list, run_save_as_pdf, next_file, attempts, folder, status_message, yielded, rpc,
    files_selected, target_language, returned_value,
    \* one call of pdf_translation.translate_text (SpecChunk)
    chunk_text, chunk_outcomes, chunk_result, cpc,
    \* one call of apply_translations_to_paragraphs (SpecApply)
    apply_paragraphs, apply_texts, applied, apc

parseVars == <<text, structures, rebuilt, ppc>>
batchVars == <<segs, batches, bpc>>
invokeVars == <<flavour, texts, outcome, parsed, result, calls, ipc>>
driverVars == <<kind, input, save_as_pdf, pc, tree, jobs, job, offset, translated, outtext,
                out, log>>
runVars == <<file_list, run_save_as_pdf, next_file, attempts, folder, status_message, yielded,
             rpc, files_selected, target_language, returned_value>>
chunkVars == <<chunk_text, chunk_outcomes, chunk_result, cpc>>
applyVars == <<apply_paragraphs, apply_texts, applied, apc>>
vars == <<parseVars, batchVars, invokeVars, driverVars, runVars, chunkVars, applyVars>>

\* the variables of SpecParse when another specification runs
ParseIdle == text = <<>> /\ structures = <<>> /\ rebuilt = <<>> /\ ppc = "idle"
\* the variables of SpecBatch when another specification runs
BatchIdle == segs = <<>> /\ batches = <<>> /\ bpc = "idle"

\* the variables of SpecInvoke when another specification runs
InvokeIdle ==
    /\ flavour = "none" /\ texts = <<>> /\ outcome = [kind |-> "nocall", content |-> <<>>]
    /\ parsed = <<>>
    /\ result = <<>> /\ calls = 0 /\ ipc = "idle"

\* the variables of Spec when another specification runs
DriverIdle ==
    /\ kind = "none" /\ input = <<>> /\ save_as_pdf = FALSE /\ pc = "idle"
    /\ tree = <<>> /\ jobs = <<>> /\ job = 0 /\ offset = 0 /\ translated = <<>>
    /\ outtext = <<>> /\ out = <<>> /\ log = <<>>

\* the variables of SpecRun when another specification runs
RunIdle ==
    /\ file_list = <<>> /\ run_save_as_pdf = FALSE /\ next_file = 0 /\ attempts = <<>>
    /\ folder = <<>> /\ status_message = <<>> /\ yielded = <<>> /\ rpc = "idle"
    /\ files_selected = FALSE /\ target_language = "" /\ returned_value = <<>>
\* the variables of SpecChunk when another specification runs
ChunkIdle == chunk_text = <<>> /\ chunk_outcomes = <<>> /\ chunk_result = <<>> /\ cpc = "idle"
\* the variables of SpecApply when another specification runs
ApplyIdle == apply_paragraphs = <<>> /\ apply_texts = <<>> /\ applied = <<>> /\ apc = "idle"
\* the variables of the specifications that come after Spec, when they do not run
LaterIdle == RunIdle /\ ChunkIdle /\ ApplyIdle

----------------------------------------------------------------------------
(* Bounds of the model *)

\* longest text handed to parse_text_structure
MaxTextLen == 7
\* longest segment list handed to group_structures_for_translation
MaxSegs == 4
\* longest list of texts handed to a translation invoker
MaxTexts == 3
\* longest response of the translation service
MaxRespLen == 3
\* longest text file a driver is given
MaxDocLen == 4
\* most requests to the translation service in one document pass
MaxCalls == 3
\* most pages of a page-description document
MaxPages == 2

----------------------------------------------------------------------------
(* Python strings *)

\* the characters str.strip(), str.isspace() and the regex class \s agree on
Whitespace == {" ", "\t", "\n"}

Min(S) == CHOOSE m \in S : \A k \in S : m <= k
Max(S) == CHOOSE m \in S : \A k \in S : m >= k

\* all sequences over alphabet A of length at most n
SeqsUpTo(A, n) == UNION {[1..k -> A] : k \in 0..n}

\* `not s.strip()`
IsBlank(s) == \A i \in 1..Len(s) : s[i] \in Whitespace

\* the indices of s that hold a non-whitespace character
NonSpace(s) == {i \in 1..Len(s) : s[i] \notin Whitespace}

\* s.strip()
Strip(s) == IF IsBlank(s) THEN <<>> ELSE SubSeq(s, Min(NonSpace(s)), Max(NonSpace(s)))

\* re.match(r'^(\s*)', s).group(1): the longest whitespace prefix
LeadingWs(s) == IF IsBlank(s) THEN s ELSE SubSeq(s, 1, Min(NonSpace(s)) - 1)

\* re.search(r'(\s*)$', s).group(1): the leftmost suffix that is all whitespace
TrailingWs(s) == IF IsBlank(s) THEN s ELSE SubSeq(s, Max(NonSpace(s)) + 1, Len(s))

\* s.split(sep) for a one-element separator
RECURSIVE Split(_, _)
Split(s, sep) ==
    LET at == {i \in 1..Len(s) : s[i] = sep}
    IN  IF at = {} THEN <<s>>
        ELSE <<SubSeq(s, 1, Min(at) - 1)>> \o Split(SubSeq(s, Min(at) + 1, Len(s)), sep)

\* sep.join(parts)
RECURSIVE Join(_, _)
Join(parts, sep) ==
    IF parts = <<>> THEN <<>>
    ELSE IF Len(parts) = 1 THEN parts[1]
    ELSE parts[1] \o <<sep>> \o Join(Tail(parts), sep)

----------------------------------------------------------------------------
(* txt_translation.py: decomposition and reassembly *)

EmptyStructLosingWs(line, line_num) ==
    [content |-> <<>>, leading_whitespace |-> <<>>, trailing_whitespace |-> <<>>,
     is_empty |-> TRUE, line_number |-> line_num]

\* the segment of a blank or whitespace-only line
EmptyStruct(line, line_num) ==
    [content |-> <<>>, leading_whitespace |-> line, trailing_whitespace |-> <<>>,
     is_empty |-> TRUE, line_number |-> line_num]

\* the segment of a line with content
ContentStruct(line, line_num) ==
    [content |-> Strip(line), leading_whitespace |-> LeadingWs(line),
     trailing_whitespace |-> TrailingWs(line),
     is_empty |-> FALSE, line_number |-> line_num]

parse_text_structure(t) ==
    LET lines == Split(t, "\n")
    IN  [k \in 1..Len(lines) |->
            IF IsBlank(lines[k]) THEN EmptyStruct(lines[k], k - 1)
            ELSE ContentStruct(lines[k], k - 1)]

\* one line of reconstruct_text
StructLine(struct) ==
    IF struct.is_empty THEN struct.leading_whitespace
    ELSE struct.leading_whitespace \o struct.content \o struct.trailing_whitespace

reconstruct_text(structs) ==
    Join([k \in 1..Len(structs) |-> StructLine(structs[k])], "\n")

----------------------------------------------------------------------------
(* txt_translation.py: group_structures_for_translation *)

max_batch_length == 3000

\* sum of the lengths of the strings of a list
RECURSIVE TotalLen(_)
TotalLen(strs) == IF strs = <<>> THEN 0 ELSE Len(Head(strs)) + TotalLen(Tail(strs))

\* the loop's locals before the first segment
GroupStart ==
    [batches |-> <<>>, current_batch_indices |-> <<>>, current_batch_texts |-> <<>>,
     current_length |-> 0]

\* batches.append((indices.copy(), texts.copy())); clear both; current_length = 0
Flush(acc) ==
    [batches |-> Append(acc.batches, [indices |-> acc.current_batch_indices,
                                      texts |-> acc.current_batch_texts]),
     current_batch_indices |-> <<>>, current_batch_texts |-> <<>>, current_length |-> 0]

GroupEmptyNoFlush(acc) == acc

\* the loop body for an empty segment: close the batch in progress, add nothing
GroupEmpty(acc) == IF acc.current_batch_texts # <<>> THEN Flush(acc) ELSE acc

BatchTooLongIgnoringNext(current_length, text_length) == current_length > max_batch_length

BatchTooLongAtBoundary(current_length, text_length) ==
    current_length + text_length >= max_batch_length

\* `current_length + text_length > max_batch_length`
BatchTooLong(current_length, text_length) == current_length + text_length > max_batch_length

\* the loop body for a segment with content, at index i (from 0)
GroupContent(acc, i, struct) ==
    LET text_length == Len(struct.content)
        a == IF BatchTooLong(acc.current_length, text_length) /\ acc.current_batch_texts # <<>>
             THEN Flush(acc) ELSE acc
    IN  [batches |-> a.batches,
         current_batch_indices |-> Append(a.current_batch_indices, i),
         current_batch_texts |-> Append(a.current_batch_texts, struct.content),
         current_length |-> a.current_length + text_length]

\* the loop over structs[k..], k from 1
RECURSIVE GroupLoop(_, _, _)
GroupLoop(acc, structs, k) ==
    IF k > Len(structs) THEN acc
    ELSE IF structs[k].is_empty \/ IsBlank(structs[k].content)
         THEN GroupLoop(GroupEmpty(acc), structs, k + 1)
         ELSE GroupLoop(GroupContent(acc, k - 1, structs[k]), structs, k + 1)

GroupFinishDroppingLast(acc) == acc.batches

\* after the loop: the batch in progress, if any, is the last batch
GroupFinish(acc) ==
    IF acc.current_batch_texts # <<>>
    THEN Append(acc.batches, [indices |-> acc.current_batch_indices,
                              texts |-> acc.current_batch_texts])
    ELSE acc.batches

group_structures_for_translation(structs) == GroupFinish(GroupLoop(GroupStart, structs, 1))

----------------------------------------------------------------------------
(* SpecBatch: group_structures_for_translation on every segment list *)

\* a string of n letters
Letters(n) == [i \in 1..n |-> "a"]

\* content lengths around the budget: far below, a third of it, the budget, one over
SegLengths == {1, max_batch_length \div 3, max_batch_length, max_batch_length + 1}

\* segments as parse_text_structure makes them, and one whose content is
\* whitespace although is_empty is not set
SegChoices ==
    {EmptyStruct(<<>>, 0), EmptyStruct(<<" ", " ">>, 0)}
    \cup {[content |-> Letters(n), leading_whitespace |-> <<>>, trailing_whitespace |-> <<>>,
           is_empty |-> FALSE, line_number |-> 0] : n \in SegLengths}
    \cup {[content |-> <<" ">>, leading_whitespace |-> <<>>, trailing_whitespace |-> <<>>,
           is_empty |-> FALSE, line_number |-> 0]}

\* a list of segments numbered by line
Numbered(structs) == [k \in 1..Len(structs) |-> [structs[k] EXCEPT !.line_number = k - 1]]

InitBatch ==
    /\ \E ss \in SeqsUpTo(SegChoices, MaxSegs) : segs = Numbered(ss)
    /\ batches = <<>>
    /\ bpc = "start"
    /\ ParseIdle /\ InvokeIdle /\ DriverIdle /\ LaterIdle

Group ==
    /\ bpc = "start"
    /\ batches' = group_structures_for_translation(segs)
    /\ bpc' = "done"
    /\ UNCHANGED <<segs, parseVars, invokeVars, driverVars, runVars, chunkVars, applyVars>>

NextBatch == Group

SpecBatch == InitBatch /\ [][NextBatch]_vars

----------------------------------------------------------------------------
(* The translation service, as the invokers see it *)

\* client.chat.completions.create raises
Raises == [kind |-> "raise", content |-> <<>>]
\* the call returns and response.choices[0].message.content is None
NoContent == [kind |-> "none", content |-> <<>>]
\* no request was made
NoCall == [kind |-> "nocall", content |-> <<>>]
\* the call returns with this content
Content(c) == [kind |-> "content", content |-> c]

----------------------------------------------------------------------------
(* txt_translation.py: translate_text_batch *)

Digits == <<"0", "1", "2", "3", "4", "5", "6", "7", "8", "9">>
IsDigit(c) == \E d \in 1..Len(Digits) : Digits[d] = c

\* how many digits s starts with
LeadingDigits(s) ==
    IF \A i \in 1..Len(s) : IsDigit(s[i]) THEN Len(s)
    ELSE Min({i \in 1..Len(s) : ~IsDigit(s[i])}) - 1

\* re.sub(r'^\d+\.\s*', '', line)
RemoveNumbering(line) ==
    LET d == LeadingDigits(line)
    IN  IF d >= 1 /\ Len(line) > d /\ line[d + 1] = "."
        THEN LET rest == SubSeq(line, d + 2, Len(line))
             IN  SubSeq(rest, Len(LeadingWs(rest)) + 1, Len(rest))
        ELSE line

\* cleaned_translations before padding: the stripped non-empty lines of the
\* stripped response, each without a leading numbering
TxtCleaned(content) ==
    LET translated_lines == Split(Strip(content), "\n")
        stripped == [k \in 1..Len(translated_lines) |-> Strip(translated_lines[k])]
        kept == SelectSeq(stripped, LAMBDA line : line # <<>>)
    IN  [k \in 1..Len(kept) |-> RemoveNumbering(kept[k])]

TxtPadFromStart(cleaned, txts) ==
    IF Len(cleaned) < Len(txts)
    THEN cleaned \o SubSeq(txts, 1, Len(txts) - Len(cleaned))
    ELSE cleaned

\* while len(cleaned) < len(texts): cleaned.append(texts[len(cleaned)])
TxtPad(cleaned, txts) ==
    IF Len(cleaned) < Len(txts)
    THEN cleaned \o SubSeq(txts, Len(cleaned) + 1, Len(txts))
    ELSE cleaned

TxtTruncateNot(cleaned, txts) == cleaned

\* cleaned_translations[:len(texts)]
TxtTruncate(cleaned, txts) ==
    IF Len(cleaned) > Len(txts) THEN SubSeq(cleaned, 1, Len(txts)) ELSE cleaned

TxtOnErrorEmpty(txts) == <<>>

\* except Exception: return texts
TxtOnError(txts) == txts

\* the invoker on texts when the service answers o: what it returns, how many
\* requests it made, the translations it parsed
txt_translate_text_batch(txts, o) ==
    IF txts = <<>> \/ \A i \in 1..Len(txts) : IsBlank(txts[i])
    THEN [result |-> txts, calls |-> 0, parsed |-> <<>>]
    ELSE IF o.kind # "content"
    THEN [result |-> TxtOnError(txts), calls |-> 1, parsed |-> <<>>]
    ELSE LET cleaned == TxtCleaned(o.content)
         IN  [result |-> TxtTruncate(TxtPad(cleaned, txts), txts), calls |-> 1,
              parsed |-> cleaned]

----------------------------------------------------------------------------
(* docx_translation.py: translate_text_batch *)

SEP == "---TRANSLATION_SEPARATOR---"

\* the decimal numeral of n, as f"{n}" writes it
RECURSIVE Dec(_)
Dec(n) == IF n < 10 THEN <<Digits[n + 1]>> ELSE Dec(n \div 10) \o <<Digits[(n % 10) + 1]>>

\* s.startswith(prefix)
StartsWith(s, prefix) == Len(s) >= Len(prefix) /\ SubSeq(s, 1, Len(prefix)) = prefix

\* c in s
Contains(s, c) == \E i \in 1..Len(s) : s[i] = c

\* s.split(c, 1)[1], for s that contains c
AfterFirst(s, c) == SubSeq(s, Min({i \in 1..Len(s) : s[i] = c}) + 1, Len(s))

\* text_map: the positions (from 1) of the texts that are not blank, in order
NonEmptyPositions(txts) ==
    LET RECURSIVE From(_)
        From(i) == IF i > Len(txts) THEN <<>>
                   ELSE IF ~IsBlank(txts[i]) THEN <<i>> \o From(i + 1)
                   ELSE From(i + 1)
    IN  From(1)

\* the loop body of the numbered-list parser for one line of the response
NumberedLine(acc, rawline) ==
    LET line == Strip(rawline)
        n == Dec(Len(acc.translated_parts) + 1)
    IN  IF line # <<>> /\ (StartsWith(line, n \o <<".">>) \/ StartsWith(line, n \o <<" ">>))
        THEN [translated_parts |->
                  IF acc.current_translation # <<>>
                  THEN Append(acc.translated_parts, Strip(acc.current_translation))
                  ELSE acc.translated_parts,
              current_translation |->
                  IF Contains(line, ".") THEN Strip(AfterFirst(line, ".")) ELSE line]
        ELSE [translated_parts |-> acc.translated_parts,
              current_translation |->
                  IF acc.current_translation # <<>> /\ line # <<>>
                  THEN acc.current_translation \o <<" ">> \o line
                  ELSE acc.current_translation \o line]

RECURSIVE NumberedLoop(_, _)
NumberedLoop(acc, lines) ==
    IF lines = <<>> THEN acc ELSE NumberedLoop(NumberedLine(acc, Head(lines)), Tail(lines))

\* the fallback parser: split by numbered list
NumberedParts(translated_content) ==
    LET acc == NumberedLoop([translated_parts |-> <<>>, current_translation |-> <<>>],
                            Split(translated_content, "\n"))
    IN  IF acc.current_translation # <<>>
        THEN Append(acc.translated_parts, Strip(acc.current_translation))
        ELSE acc.translated_parts

\* translated_parts: split by the separator, or by numbered list without it
DocxParts(content) ==
    LET translated_content == Strip(content)
    IN  IF Contains(translated_content, SEP)
        THEN Split(translated_content, SEP)
        ELSE NumberedParts(translated_content)

DocxMapBackByPosition(txts, translated_parts) ==
    [i \in 1..Len(txts) |->
        IF i <= Len(translated_parts) /\ i <= Len(NonEmptyPositions(txts))
        THEN Strip(translated_parts[i]) ELSE txts[i]]

\* result = texts.copy(); result[text_map[i]] = translated_parts[i].strip() for
\* the first len(non_empty_texts) parts
DocxMapBack(txts, translated_parts) ==
    LET text_map == NonEmptyPositions(txts)
    IN  [i \in 1..Len(txts) |->
            IF \E j \in 1..Len(text_map) : text_map[j] = i /\ j <= Len(translated_parts)
            THEN Strip(translated_parts[CHOOSE j \in 1..Len(text_map) : text_map[j] = i])
            ELSE txts[i]]

\* the invoker with a second request after a failed one
docx_translate_text_batch_retrying(txts, o) ==
    IF txts = <<>> \/ \A i \in 1..Len(txts) : IsBlank(txts[i])
    THEN [result |-> txts, calls |-> 0, parsed |-> <<>>]
    ELSE IF o.kind # "content"
    THEN [result |-> txts, calls |-> 2, parsed |-> <<>>]
    ELSE [result |-> DocxMapBack(txts, DocxParts(o.content)), calls |-> 1,
          parsed |-> DocxParts(o.content)]

docx_translate_text_batch(txts, o) ==
    IF txts = <<>> \/ \A i \in 1..Len(txts) : IsBlank(txts[i])
    THEN [result |-> txts, calls |-> 0, parsed |-> <<>>]
    ELSE IF NonEmptyPositions(txts) = <<>>
    THEN [result |-> txts, calls |-> 0, parsed |-> <<>>]
    ELSE IF o.kind # "content"
    THEN [result |-> txts, calls |-> 1, parsed |-> <<>>]
    ELSE LET translated_parts == DocxParts(o.content)
         IN  [result |-> DocxMapBack(txts, translated_parts), calls |-> 1,
              parsed |-> translated_parts]

----------------------------------------------------------------------------
(* docx_translation.py: the document tree and its reassembly *)

(* A run is its text and its seven formatting attributes; an attribute is a *)
(* string, "None" for None, "" for an empty name, "0" for a zero value.     *)
(* A paragraph is its list of runs.                                         *)

\* values that Python's `if value:` takes as false
Falsy == {"None", "", "0"}

\* paragraph.text: the texts of its runs, concatenated
ParagraphText(paragraph) ==
    LET RECURSIVE Cat(_)
        Cat(k) == IF k > Len(paragraph.runs) THEN <<>> ELSE paragraph.runs[k].text \o Cat(k + 1)
    IN  Cat(1)

collect_paragraph_texts(paragraphs) ==
    [k \in 1..Len(paragraphs) |->
        IF ~IsBlank(ParagraphText(paragraphs[k])) THEN ParagraphText(paragraphs[k]) ELSE <<>>]

\* original_formatting: the attributes of the first run whose text is not
\* blank; found is FALSE when there is no such run (original_formatting = None)
OriginalFormatting(runs) ==
    LET meaningful == {k \in 1..Len(runs) : ~IsBlank(runs[k].text)}
        run == IF meaningful = {} THEN runs[1] ELSE runs[Min(meaningful)]
    IN  [found |-> meaningful # {},
         bold |-> run.bold, italic |-> run.italic, underline |-> run.underline,
         font_name |-> run.font_name, font_size |-> run.font_size,
         font_color |-> IF run.font_color \in Falsy THEN "None" ELSE run.font_color,
         highlight_color |-> run.highlight_color]

\* the first run after run.clear(), first_run.text = translation, and the
\* captured formatting applied to it
FirstRunWith(first_run, translation, original_formatting) ==
    LET f == original_formatting
        cleared == [first_run EXCEPT !.text = translation]
    IN  IF ~f.found THEN cleared
        ELSE [cleared EXCEPT
                 !.bold = IF f.bold # "None" THEN f.bold ELSE @,
                 !.italic = IF f.italic # "None" THEN f.italic ELSE @,
                 !.underline = IF f.underline # "None" THEN f.underline ELSE @,
                 !.font_name = IF f.font_name \notin Falsy THEN f.font_name ELSE @,
                 !.font_size = IF f.font_size \notin Falsy THEN f.font_size ELSE @,
                 !.font_color = IF f.font_color \notin Falsy THEN f.font_color ELSE @,
                 !.highlight_color = IF f.highlight_color \notin Falsy THEN f.highlight_color ELSE @]

\* the loop body without the test for a blank translation
ApplyTranslationAlways(paragraph, translation) ==
    IF paragraph.runs = <<>> THEN paragraph
    ELSE [runs |-> <<FirstRunWith(paragraph.runs[1], translation,
                                  OriginalFormatting(paragraph.runs))>>]

\* the loop body of apply_translations_to_paragraphs for one paragraph
ApplyTranslation(paragraph, translation) ==
    IF IsBlank(translation) THEN paragraph
    ELSE IF paragraph.runs = <<>> THEN paragraph
    ELSE [runs |-> <<FirstRunWith(paragraph.runs[1], translation,
                                  OriginalFormatting(paragraph.runs))>>]

\* zip(paragraphs, translations): the pairs up to the shorter list
apply_translations_to_paragraphs(paragraphs, translations) ==
    [k \in 1..Len(paragraphs) |->
        IF k <= Len(translations) THEN ApplyTranslation(paragraphs[k], translations[k])
        ELSE paragraphs[k]]

batch_size == 20

----------------------------------------------------------------------------
(* docx_translation.py: the order in which translate_docx_document visits   *)
(* the paragraph lists of a document                                        *)

(* A document is [paragraphs, tables, sections]; a table is the list of the *)
(* paragraphs of its cells, row by row; a section is [header, footer], each *)
(* [paragraphs, tables].  A part names one paragraph list.                  *)

Part(name, s, t, chunked) == [part |-> name, s |-> s, t |-> t, chunked |-> chunked]

\* the concatenation of a list of lists
RECURSIVE Flatten(_)
Flatten(lists) == IF lists = <<>> THEN <<>> ELSE Head(lists) \o Flatten(Tail(lists))

\* translate_table_cells returns at once for a table without paragraphs
TableParts(name, s, tables) ==
    Flatten([t \in 1..Len(tables) |->
                IF tables[t] # <<>> THEN <<Part(name, s, t, TRUE)>> ELSE <<>>])

\* a header or footer: its paragraphs in one call, then its tables, both only
\* when it has paragraphs
StoryParts(name, table_name, s, story) ==
    IF story.paragraphs # <<>>
    THEN <<Part(name, s, 0, FALSE)>> \o TableParts(table_name, s, story.tables)
    ELSE <<>>

\* the paragraph lists translate_docx_document translates, in its order
DocumentParts(doc) ==
    (IF doc.paragraphs # <<>> THEN <<Part("body", 0, 0, TRUE)>> ELSE <<>>)
    \o TableParts("table", 0, doc.tables)
    \o Flatten([s \in 1..Len(doc.sections) |->
                   StoryParts("header", "header_table", s, doc.sections[s].header)
                   \o StoryParts("footer", "footer_table", s, doc.sections[s].footer)])

\* the paragraphs a part names
PartParagraphs(doc, p) ==
    CASE p.part = "body" -> doc.paragraphs
      [] p.part = "table" -> doc.tables[p.t]
      [] p.part = "header" -> doc.sections[p.s].header.paragraphs
      [] p.part = "header_table" -> doc.sections[p.s].header.tables[p.t]
      [] p.part = "footer" -> doc.sections[p.s].footer.paragraphs
      [] p.part = "footer_table" -> doc.sections[p.s].footer.tables[p.t]

\* the document with the paragraphs of a part replaced
WithPartParagraphs(doc, p, ps) ==
    CASE p.part = "body" -> [doc EXCEPT !.paragraphs = ps]
      [] p.part = "table" -> [doc EXCEPT !.tables[p.t] = ps]
      [] p.part = "header" -> [doc EXCEPT !.sections[p.s].header.paragraphs = ps]
      [] p.part = "header_table" -> [doc EXCEPT !.sections[p.s].header.tables[p.t] = ps]
      [] p.part = "footer" -> [doc EXCEPT !.sections[p.s].footer.paragraphs = ps]
      [] p.part = "footer_table" -> [doc EXCEPT !.sections[p.s].footer.tables[p.t] = ps]

\* texts[i:i + batch_size] for a chunked part, the whole list otherwise
ChunkAt(txts, p, i) ==
    IF p.chunked THEN SubSeq(txts, i + 1, Min({i + batch_size, Len(txts)})) ELSE txts

\* whether the chunk at offset i is the last of its part
LastChunk(txts, p, i) == ~p.chunked \/ i + batch_size >= Len(txts)

----------------------------------------------------------------------------
(* pdf_translation.py: translate_text *)

max_chunk_size == 3000

\* f"Translation error: {str(e)}"
TranslationError == <<"Translation error: ">>

\* [text[i:i+max_chunk_size] for i in range(0, len(text), max_chunk_size)]
TextChunks(t) ==
    [k \in 1..((Len(t) + max_chunk_size - 1) \div max_chunk_size) |->
        SubSeq(t, (k - 1) * max_chunk_size + 1, Min({k * max_chunk_size, Len(t)}))]

\* the loop over chunks[k..] when the service answers chunk k with os[k]:
\* the contents gathered, the requests made, whether a request raised
RECURSIVE ChunkLoop(_, _, _, _)
ChunkLoop(chunks, os, k, acc) ==
    IF k > Len(chunks) THEN acc
    ELSE IF IsBlank(chunks[k]) THEN ChunkLoop(chunks, os, k + 1, acc)
    ELSE IF os[k].kind = "raise"
         THEN [acc EXCEPT !.requests = @ + 1, !.raised = TRUE]
         ELSE ChunkLoop(chunks, os, k + 1,
                        [acc EXCEPT !.requests = @ + 1,
                                    !.translated_chunks = Append(@, os[k])])

\* translate_text: the translated chunks joined by newline, or the error
\* text when a request raised or '\n'.join met a None content
pdf_translate_text(t, os) ==
    LET acc == ChunkLoop(TextChunks(t), os, 1,
                         [translated_chunks |-> <<>>, requests |-> 0, raised |-> FALSE])
        got == acc.translated_chunks
    IN  [result |-> IF acc.raised \/ \E k \in 1..Len(got) : got[k].kind = "none"
                    THEN TranslationError
                    ELSE Join([k \in 1..Len(got) |-> got[k].content], "\n"),
         requests |-> acc.requests]

----------------------------------------------------------------------------
(* The documents and the service answers of Spec *)

\* what the service may answer to a driver's request: an error, no content,
\* an empty text, one translation, two translations in either layout
DriverOutcomes ==
    {Raises, Content(<<>>), Content(<<"a">>), Content(<<"a", "\n", "b">>),
     Content(<<"a", SEP, "b">>)}

Run(t, bold, font_name, font_color) ==
    [text |-> t, bold |-> bold, italic |-> "None", underline |-> "None",
     font_name |-> font_name, font_size |-> "None", font_color |-> font_color,
     highlight_color |-> "None"]

\* a paragraph without text: one run, empty
BlankPara == [runs |-> <<Run(<<>>, "None", "None", "None")>>]
\* a paragraph of two runs, the first whitespace, the second bold and red
TextPara == [runs |-> <<Run(<<" ">>, "None", "Arial", "None"), Run(<<"x">>, "True", "None", "FF0000")>>]

\* n paragraphs, the first nblank of them blank
Paragraphs(n, nblank) == [k \in 1..n |-> IF k <= nblank THEN BlankPara ELSE TextPara]

BodyChoices ==
    {Paragraphs(0, 0), Paragraphs(1, 0), Paragraphs(batch_size + 1, batch_size),
     Paragraphs(batch_size + 1, 0)}
TablesChoices == {<<>>, <<Paragraphs(2, 1)>>, <<Paragraphs(0, 0), Paragraphs(1, 0)>>}
StoryChoices ==
    {[paragraphs |-> ps, tables |-> ts] :
        ps \in {Paragraphs(1, 1), Paragraphs(1, 0)}, ts \in {<<>>, <<Paragraphs(1, 0)>>}}

\* a header of more paragraphs with text than a chunk holds
LongHeader == [paragraphs |-> Paragraphs(batch_size + 1, 0), tables |-> <<>>]

DocxDocuments ==
    {[paragraphs |-> b, tables |-> ts, sections |-> <<[header |-> h, footer |-> f]>>] :
        b \in BodyChoices, ts \in TablesChoices, h \in StoryChoices, f \in StoryChoices}
    \cup {[paragraphs |-> b, tables |-> <<>>,
           sections |-> <<[header |-> LongHeader, footer |-> f]>>] :
             b \in {Paragraphs(0, 0), Paragraphs(1, 0)}, f \in StoryChoices}

\* how many requests a pass over the document makes: one for every chunk
\* with a text that is not blank
DocxRequests(doc) ==
    LET ps == DocumentParts(doc)
        Txts(j) == collect_paragraph_texts(PartParagraphs(doc, ps[j]))
        Offsets(j) == IF ps[j].chunked
                      THEN {i \in 0..Len(Txts(j)) - 1 : i % batch_size = 0} ELSE {0}
    IN  Cardinality({<<j, i>> \in UNION {{j} \X Offsets(j) : j \in 1..Len(ps)} :
                        \E k \in 1..Len(ChunkAt(Txts(j), ps[j], i)) :
                            ~IsBlank(ChunkAt(Txts(j), ps[j], i)[k])})

\* text files
TxtDocuments == SeqsUpTo({"x", " ", "\n"}, MaxDocLen)

\* pages of text blocks: none, one with text, one with text and one blank
PdfDocuments == UNION {[1..n -> {<<>>, <<<<"x">>>>, <<<<"x">>, <<" ">>>>}] : n \in 1..MaxPages}

\* the blocks of a document in page order, as (page, block)
PdfBlocks(pages) ==
    Flatten([pg \in 1..Len(pages) |-> [b \in 1..Len(pages[pg]) |-> <<pg, b>>]])

----------------------------------------------------------------------------
(* Spec: one document pass of translate_txt_document,                       *)
(* translate_docx_document or translate_pdf_document.  Every request to the *)
(* service is answered by one of DriverOutcomes; every step that can raise  *)
(* may raise.  log records the steps taken, in order.                       *)

\* a step of the pass, for the log
Event(ev) == [ev |-> ev, job |-> 0, offset |-> 0, texts |-> <<>>, requests |-> 0]
\* a call of a translation function on the texts of job j at offset i, which
\* made this many requests to the service
CallEvent(ev, j, i, txts, requests) ==
    [ev |-> ev, job |-> j, offset |-> i, texts |-> txts, requests |-> requests]
\* the write-back of these translations for job j
JobEvent(ev, j, txts) == [ev |-> ev, job |-> j, offset |-> 0, texts |-> txts, requests |-> 0]

\* the output folder: the file in the input's format and the converted file
NoOutput == [native |-> "absent", pdf |-> "absent"]
\* the folder of a document translated to a converted file before: that file
\* is still at pdf_file_path
StaleOutput == [native |-> "absent", pdf |-> "stale"]

InitDriver ==
    /\ \/ kind = "txt" /\ input \in TxtDocuments /\ save_as_pdf \in BOOLEAN
       \/ /\ kind = "docx" /\ save_as_pdf \in BOOLEAN
          /\ input \in {d \in DocxDocuments : DocxRequests(d) <= MaxCalls}
       \/ kind = "pdf" /\ input \in PdfDocuments /\ save_as_pdf = FALSE
    /\ pc = "start"
    /\ tree = <<>> /\ jobs = <<>> /\ job = 0 /\ offset = 0 /\ translated = <<>>
    /\ outtext = <<>> /\ log = <<>>
    /\ out \in (IF save_as_pdf THEN {NoOutput, StaleOutput} ELSE {NoOutput})
    /\ ParseIdle /\ BatchIdle /\ InvokeIdle /\ LaterIdle

othersUnchanged == UNCHANGED <<parseVars, batchVars, invokeVars, runVars, chunkVars, applyVars>>

\* how many requests the pass has made so far
RECURSIVE Requests(_)
Requests(l) == IF l = <<>> THEN 0 ELSE Head(l).requests + Requests(Tail(l))

\* the except branch of a driver: return False
Throw(ev) ==
    /\ pc' = "failed"
    /\ log' = Append(log, Event(ev))
    /\ UNCHANGED <<kind, input, save_as_pdf, tree, jobs, job, offset, translated, outtext, out>>
    /\ othersUnchanged

LoopDoneEarly == job >= Len(jobs)

\* the loop over the batches, parts or blocks has ended
LoopDone == job > Len(jobs)

(* ---- translate_txt_document ---- *)

\* open(input_path) and f.read()
TxtRead ==
    /\ kind = "txt" /\ pc = "start"
    /\ pc' = "read"
    /\ log' = Append(log, Event("read"))
    /\ UNCHANGED <<kind, input, save_as_pdf, tree, jobs, job, offset, translated, outtext, out>>
    /\ othersUnchanged

TxtReadFails == kind = "txt" /\ pc = "start" /\ Throw("read_failed")

\* structures = parse_text_structure(original_text)
TxtParse ==
    /\ kind = "txt" /\ pc = "read"
    /\ tree' = parse_text_structure(input)
    /\ pc' = "decomposed"
    /\ log' = Append(log, Event("decompose"))
    /\ UNCHANGED <<kind, input, save_as_pdf, jobs, job, offset, translated, outtext, out>>
    /\ othersUnchanged

\* translation_batches = group_structures_for_translation(structures)
TxtGroup ==
    /\ kind = "txt" /\ pc = "decomposed"
    /\ jobs' = group_structures_for_translation(tree)
    /\ job' = 1
    /\ pc' = "ready"
    /\ log' = Append(log, Event("batch"))
    /\ UNCHANGED <<kind, input, save_as_pdf, tree, offset, translated, outtext, out>>
    /\ othersUnchanged

\* translated_texts = translate_text_batch(client, model, texts, target_language)
TxtTranslate ==
    /\ kind = "txt" /\ pc = "ready" /\ ~LoopDone
    /\ \E o \in DriverOutcomes :
          LET r == txt_translate_text_batch(jobs[job].texts, o)
          IN  /\ translated' = r.result
              /\ log' = Append(log, CallEvent("invoke", job, 0, jobs[job].texts, r.calls))
    /\ pc' = "translated"
    /\ UNCHANGED <<kind, input, save_as_pdf, tree, jobs, job, offset, outtext, out>>
    /\ othersUnchanged

\* the write-back one position too far
TxtWrittenShifted(structs, indices, translated_texts) ==
    [k \in 1..Len(structs) |->
        IF \E m \in 1..Min({Len(indices), Len(translated_texts)}) : indices[m] = k - 2
        THEN [structs[k] EXCEPT !.content =
                 translated_texts[Max({m \in 1..Min({Len(indices), Len(translated_texts)}) :
                                          indices[m] = k - 2})]]
        ELSE structs[k]]

\* for idx, translated_text in zip(indices, translated_texts):
\*     if idx < len(structures): structures[idx]['content'] = translated_text
TxtWritten(structs, indices, translated_texts) ==
    [k \in 1..Len(structs) |->
        IF \E m \in 1..Min({Len(indices), Len(translated_texts)}) : indices[m] = k - 1
        THEN [structs[k] EXCEPT !.content =
                 translated_texts[Max({m \in 1..Min({Len(indices), Len(translated_texts)}) :
                                          indices[m] = k - 1})]]
        ELSE structs[k]]

\* the write-back of one batch, then the pause when another batch follows
TxtWriteBack ==
    /\ kind = "txt" /\ pc = "translated"
    /\ tree' = TxtWritten(tree, jobs[job].indices, translated)
    /\ log' = log \o <<JobEvent("write_back", job, translated)>>
                  \o (IF job < Len(jobs) THEN <<Event("sleep")>> ELSE <<>>)
    /\ job' = job + 1
    /\ translated' = <<>>
    /\ pc' = "ready"
    /\ UNCHANGED <<kind, input, save_as_pdf, jobs, offset, outtext, out>>
    /\ othersUnchanged

\* translated_text = reconstruct_text(structures)
TxtReconstruct ==
    /\ kind = "txt" /\ pc = "ready" /\ LoopDone
    /\ outtext' = reconstruct_text(tree)
    /\ pc' = "reassembled"
    /\ log' = Append(log, Event("reconstruct"))
    /\ UNCHANGED <<kind, input, save_as_pdf, tree, jobs, job, offset, translated, out>>
    /\ othersUnchanged

\* open(output_file_path, 'w') and f.write(translated_text)
TxtSave ==
    /\ kind = "txt" /\ pc = "reassembled"
    /\ out' = [out EXCEPT !.native = "saved"]
    /\ pc' = "saved"
    /\ log' = Append(log, Event("save"))
    /\ UNCHANGED <<kind, input, save_as_pdf, tree, jobs, job, offset, translated, outtext>>
    /\ othersUnchanged

TxtSaveFails == kind = "txt" /\ pc = "reassembled" /\ Throw("save_failed")

(* ---- translate_docx_document ---- *)

\* doc = Document(input_path)
DocxLoad ==
    /\ kind = "docx" /\ pc = "start"
    /\ tree' = input
    /\ jobs' = DocumentParts(input)
    /\ job' = 1
    /\ pc' = "ready"
    /\ log' = Append(log, Event("load"))
    /\ UNCHANGED <<kind, input, save_as_pdf, offset, translated, outtext, out>>
    /\ othersUnchanged

DocxLoadFails == kind = "docx" /\ pc = "start" /\ Throw("load_failed")

\* one translate_text_batch call of the part in progress: on the next
\* batch_size texts of a chunked part, on all texts of a header or footer;
\* then the pause when the part has another chunk
DocxTranslate ==
    /\ kind = "docx" /\ pc = "ready" /\ ~LoopDone
    /\ LET txts == collect_paragraph_texts(PartParagraphs(tree, jobs[job]))
           batch == ChunkAt(txts, jobs[job], offset)
           last == LastChunk(txts, jobs[job], offset)
       IN  /\ \E o \in DriverOutcomes :
                 LET r == docx_translate_text_batch(batch, o)
                 IN  /\ translated' = translated \o r.result
                     /\ log' = log \o <<CallEvent("invoke", job, offset, batch, r.calls)>>
                                   \o (IF ~last THEN <<Event("sleep")>> ELSE <<>>)
           /\ offset' = IF last THEN 0 ELSE offset + batch_size
           /\ pc' = IF last THEN "translated" ELSE "ready"
    /\ UNCHANGED <<kind, input, save_as_pdf, tree, jobs, job, outtext, out>>
    /\ othersUnchanged

\* apply_translations_to_paragraphs on the part in progress
DocxWriteBack ==
    /\ kind = "docx" /\ pc = "translated"
    /\ tree' = WithPartParagraphs(tree, jobs[job],
                   apply_translations_to_paragraphs(PartParagraphs(tree, jobs[job]), translated))
    /\ log' = Append(log, JobEvent("write_back", job, translated))
    /\ job' = job + 1
    /\ translated' = <<>>
    /\ pc' = "ready"
    /\ UNCHANGED <<kind, input, save_as_pdf, jobs, offset, outtext, out>>
    /\ othersUnchanged

\* doc.save(output_file_path)
DocxSave ==
    /\ kind = "docx" /\ pc = "ready" /\ LoopDone
    /\ out' = [out EXCEPT !.native = "saved"]
    /\ pc' = "saved"
    /\ log' = Append(log, Event("save"))
    /\ UNCHANGED <<kind, input, save_as_pdf, tree, jobs, job, offset, translated, outtext>>
    /\ othersUnchanged

DocxSaveFails == kind = "docx" /\ pc = "ready" /\ LoopDone /\ Throw("save_failed")

(* ---- translate_txt_document and translate_docx_document after the save ---- *)

\* save_as_pdf is not set: return True
FinishNative ==
    /\ kind \in {"txt", "docx"} /\ pc = "saved" /\ ~save_as_pdf
    /\ pc' = "done"
    /\ UNCHANGED <<kind, input, save_as_pdf, tree, jobs, job, offset, translated, outtext, out, log>>
    /\ othersUnchanged

\* utils.convert_txt_to_pdf or utils.convert_docx_to_pdf: the file is
\* written, or the converter reports its error and returns False, which the
\* driver does not read
Convert ==
    /\ kind \in {"txt", "docx"} /\ pc = "saved" /\ save_as_pdf
    /\ \E converted \in BOOLEAN :
          out' = IF converted THEN [out EXCEPT !.pdf = "converted"] ELSE out
    /\ pc' = "converted"
    /\ log' = Append(log, Event("convert"))
    /\ UNCHANGED <<kind, input, save_as_pdf, tree, jobs, job, offset, translated, outtext>>
    /\ othersUnchanged

\* utils.add_watermark(pdf_file_path, pdf_file_path, watermark)
Watermark ==
    /\ kind \in {"txt", "docx"} /\ pc = "converted"
    /\ out.pdf # "absent"
    /\ out' = [out EXCEPT !.pdf = IF out.pdf = "converted" THEN "watermarked"
                                   ELSE "stale_watermarked"]
    /\ pc' = "watermarked"
    /\ log' = Append(log, Event("watermark"))
    /\ UNCHANGED <<kind, input, save_as_pdf, tree, jobs, job, offset, translated, outtext>>
    /\ othersUnchanged

\* the converted file or the watermark file cannot be read
WatermarkFails == kind \in {"txt", "docx"} /\ pc = "converted" /\ Throw("watermark_failed")

\* os.remove(output_file_path); return True
Remove ==
    /\ kind \in {"txt", "docx"} /\ pc = "watermarked"
    /\ out' = [out EXCEPT !.native = "absent"]
    /\ pc' = "done"
    /\ log' = Append(log, Event("remove"))
    /\ UNCHANGED <<kind, input, save_as_pdf, tree, jobs, job, offset, translated, outtext>>
    /\ othersUnchanged

RemoveFails == kind \in {"txt", "docx"} /\ pc = "watermarked" /\ Throw("remove_failed")

(* ---- translate_pdf_document ---- *)

\* doc = pymupdf.open(input_path); doc.add_ocg("translation", on=True)
PdfOpen ==
    /\ kind = "pdf" /\ pc = "start"
    /\ tree' = [pg \in 1..Len(input) |->
                   [b \in 1..Len(input[pg]) |-> [text |-> input[pg][b], overlay |-> "None"]]]
    /\ jobs' = PdfBlocks(input)
    /\ job' = 1
    /\ pc' = "ready"
    /\ log' = Append(log, Event("load"))
    /\ UNCHANGED <<kind, input, save_as_pdf, offset, translated, outtext, out>>
    /\ othersUnchanged

PdfOpenFails == kind = "pdf" /\ pc = "start" /\ Throw("load_failed")

\* translated_text = translate_text(text=block_text)
PdfTranslate ==
    /\ kind = "pdf" /\ pc = "ready" /\ ~LoopDone
    /\ LET block_text == tree[jobs[job][1]][jobs[job][2]].text
       IN  \E os \in [1..Len(TextChunks(block_text)) -> DriverOutcomes] :
              LET r == pdf_translate_text(block_text, os)
              IN  /\ Requests(log) + r.requests <= MaxCalls
                  /\ translated' = r.result
                  /\ log' = Append(log, CallEvent("translate_text", job, 0, <<block_text>>,
                                                  r.requests))
    /\ pc' = "translated"
    /\ UNCHANGED <<kind, input, save_as_pdf, tree, jobs, job, offset, outtext, out>>
    /\ othersUnchanged

\* page.draw_rect(bbox, fill=WHITE); page.insert_htmlbox(bbox, translated_text)
PdfOverlay ==
    /\ kind = "pdf" /\ pc = "translated"
    /\ tree' = [tree EXCEPT ![jobs[job][1]][jobs[job][2]].overlay = translated]
    /\ log' = Append(log, JobEvent("write_back", job, <<translated>>))
    /\ job' = job + 1
    /\ translated' = <<>>
    /\ pc' = "ready"
    /\ UNCHANGED <<kind, input, save_as_pdf, jobs, offset, outtext, out>>
    /\ othersUnchanged

PdfOverlayFails == kind = "pdf" /\ pc = "translated" /\ Throw("write_back_failed")

\* doc.ez_save(output_file_path); doc.close()
PdfSave ==
    /\ kind = "pdf" /\ pc = "ready" /\ LoopDone
    /\ out' = [out EXCEPT !.native = "saved"]
    /\ pc' = "saved"
    /\ log' = Append(log, Event("save"))
    /\ UNCHANGED <<kind, input, save_as_pdf, tree, jobs, job, offset, translated, outtext>>
    /\ othersUnchanged

PdfSaveFails == kind = "pdf" /\ pc = "ready" /\ LoopDone /\ Throw("save_failed")

\* utils.add_watermark(output_file_path, output_file_path, watermark); return True
PdfWatermark ==
    /\ kind = "pdf" /\ pc = "saved"
    /\ out' = [out EXCEPT !.native = "watermarked"]
    /\ pc' = "done"
    /\ log' = Append(log, Event("watermark"))
    /\ UNCHANGED <<kind, input, save_as_pdf, tree, jobs, job, offset, translated, outtext>>
    /\ othersUnchanged

PdfWatermarkFails == kind = "pdf" /\ pc = "saved" /\ Throw("watermark_failed")

Next ==
    \/ TxtRead \/ TxtReadFails \/ TxtParse \/ TxtGroup \/ TxtTranslate \/ TxtWriteBack
    \/ TxtReconstruct \/ TxtSave \/ TxtSaveFails
    \/ DocxLoad \/ DocxLoadFails \/ DocxTranslate \/ DocxWriteBack \/ DocxSave \/ DocxSaveFails
    \/ FinishNative \/ Convert \/ Watermark \/ WatermarkFails \/ Remove \/ RemoveFails
    \/ PdfOpen \/ PdfOpenFails \/ PdfTranslate \/ PdfOverlay \/ PdfOverlayFails
    \/ PdfSave \/ PdfSaveFails \/ PdfWatermark \/ PdfWatermarkFails

Spec == InitDriver /\ [][Next]_vars

----------------------------------------------------------------------------
(* SpecInvoke: one call of either invoker, on every list of texts and every *)
(* answer of the service                                                    *)

\* texts: empty, whitespace-only, and two with content
TextChoices == {<<>>, <<" ">>, <<"x">>, <<"y", " ">>}

ResponseAlphabet == {"a", " ", "\n", "1", ".", SEP}

Outcomes == {Raises, NoContent} \cup {Content(c) : c \in SeqsUpTo(ResponseAlphabet, MaxRespLen)}

InitInvoke ==
    /\ flavour \in {"txt", "docx"}
    /\ texts \in SeqsUpTo(TextChoices, MaxTexts)
    /\ outcome = NoCall
    /\ parsed = <<>>
    /\ result = <<>>
    /\ calls = 0
    /\ ipc = "start"
    /\ ParseIdle /\ BatchIdle /\ DriverIdle /\ LaterIdle

\* what one call leaves behind; a call that made no request saw no answer
Returned(r, o) ==
    /\ result' = r.result
    /\ calls' = r.calls
    /\ parsed' = r.parsed
    /\ outcome' = IF r.calls = 0 THEN NoCall ELSE o
    /\ ipc' = "returned"
    /\ UNCHANGED <<flavour, texts, parseVars, batchVars, driverVars, runVars, chunkVars, applyVars>>

TxtInvoke ==
    /\ ipc = "start" /\ flavour = "txt"
    /\ \E o \in Outcomes : Returned(txt_translate_text_batch(texts, o), o)

DocxInvoke ==
    /\ ipc = "start" /\ flavour = "docx"
    /\ \E o \in Outcomes : Returned(docx_translate_text_batch(texts, o), o)

NextInvoke == TxtInvoke \/ DocxInvoke

SpecInvoke == InitInvoke /\ [][NextInvoke]_vars

----------------------------------------------------------------------------
(* SpecParse: parse_text_structure then reconstruct_text on every text *)

TextAlphabet == {"a", " ", "\n"}

InitParse ==
    /\ text \in SeqsUpTo(TextAlphabet, MaxTextLen)
    /\ structures = <<>>
    /\ rebuilt = <<>>
    /\ ppc = "start"
    /\ BatchIdle /\ InvokeIdle /\ DriverIdle /\ LaterIdle

Parse ==
    /\ ppc = "start"
    /\ structures' = parse_text_structure(text)
    /\ ppc' = "parsed"
    /\ UNCHANGED <<text, rebuilt, batchVars, invokeVars, driverVars, runVars, chunkVars, applyVars>>

Reconstruct ==
    /\ ppc = "parsed"
    /\ rebuilt' = reconstruct_text(structures)
    /\ ppc' = "done"
    /\ UNCHANGED <<text, structures, batchVars, invokeVars, driverVars, runVars, chunkVars, applyVars>>

NextParse == Parse \/ Reconstruct

SpecParse == InitParse /\ [][NextParse]_vars

----------------------------------------------------------------------------
(* C1: decomposing a text and reassembling the segments with their content  *)
(* left as decomposed gives back the text exactly.                          *)
RoundTripIdentity == ppc = "done" => rebuilt = text

\* the text "a\n\n  \n a " of four lines: content, empty, whitespace-only,
\* and content with leading and trailing whitespace
RoundTripWitness ==
    /\ ppc = "done"
    /\ Len(structures) = 4
    /\ structures[2].is_empty /\ structures[2].leading_whitespace = <<>>
    /\ structures[3].is_empty /\ structures[3].leading_whitespace = <<" ", " ">>
    /\ ~structures[4].is_empty

----------------------------------------------------------------------------
\* whether segment k (from 1) of segs is skipped by the batcher
SegBlank(k) == segs[k].is_empty \/ IsBlank(segs[k].content)

(* C5: every batch of group_structures_for_translation has a cumulative     *)
(* content length of at most 3000, unless it is one segment that alone is   *)
(* longer than 3000.                                                        *)
BatchBudget ==
    bpc = "done" =>
        \A b \in 1..Len(batches) :
            \/ TotalLen(batches[b].texts) <= 3000
            \/ Len(batches[b].texts) = 1 /\ Len(batches[b].texts[1]) > 3000

\* both cases happen: an oversized segment alone, and a batch filled to the budget
BatchBudgetWitness ==
    /\ bpc = "done"
    /\ \E b \in 1..Len(batches) : Len(batches[b].texts) = 1 /\ Len(batches[b].texts[1]) > 3000
    /\ \E b \in 1..Len(batches) : Len(batches[b].texts) = 3 /\ TotalLen(batches[b].texts) = 3000

\* the indices of all batches, and the texts of all batches, in order
RECURSIVE AllIndices(_)
AllIndices(bs) == IF bs = <<>> THEN <<>> ELSE Head(bs).indices \o AllIndices(Tail(bs))
RECURSIVE AllTexts(_)
AllTexts(bs) == IF bs = <<>> THEN <<>> ELSE Head(bs).texts \o AllTexts(Tail(bs))

(* C6: the batches are non-empty; the indices of all batches, in order, are *)
(* strictly increasing and are exactly the indices of the segments that are *)
(* not empty or whitespace-only, each with the segment's whole content.     *)
BatchPartition ==
    bpc = "done" =>
        LET idx == AllIndices(batches)
            txt == AllTexts(batches)
        IN  /\ \A b \in 1..Len(batches) :
                    /\ batches[b].indices # <<>>
                    /\ Len(batches[b].indices) = Len(batches[b].texts)
            /\ \A j \in 1..Len(idx) - 1 : idx[j] < idx[j + 1]
            /\ {idx[j] : j \in 1..Len(idx)} = {k - 1 : k \in {k \in 1..Len(segs) : ~SegBlank(k)}}
            /\ \A j \in 1..Len(idx) : txt[j] = segs[idx[j] + 1].content

\* several batches, with skipped segments of both kinds among the segments
BatchPartitionWitness ==
    /\ bpc = "done"
    /\ Len(batches) >= 2
    /\ \E k \in 1..Len(segs) : segs[k].is_empty
    /\ \E k \in 1..Len(segs) : ~segs[k].is_empty /\ IsBlank(segs[k].content)

(* C7: no batch holds two indices with an empty or whitespace-only segment  *)
(* between them.                                                            *)
FlushAtBlank ==
    bpc = "done" =>
        \A b \in 1..Len(batches) :
            \A x, y \in 1..Len(batches[b].indices) :
                LET i == batches[b].indices[x]
                    j == batches[b].indices[y]
                IN  i < j => \A k \in i + 1..j - 1 : ~SegBlank(k + 1)

\* a blank segment between two short segments, which the budget alone would
\* have put in one batch
FlushAtBlankWitness ==
    /\ bpc = "done"
    /\ Len(segs) = 3
    /\ ~SegBlank(1) /\ SegBlank(2) /\ ~SegBlank(3)
    /\ Len(segs[1].content) + Len(segs[3].content) <= 3000
    /\ Len(batches) = 2

----------------------------------------------------------------------------
(* C2: both invokers return a list as long as the list they were given,     *)
(* whatever the service did: the right count, fewer parts, more parts, an   *)
(* empty response, or an error.                                             *)
SameLengthAsInput == ipc = "returned" => Len(result) = Len(texts)

\* the service answered with more translations than texts were sent
SameLengthWitness ==
    /\ ipc = "returned" /\ flavour = "txt"
    /\ calls = 1 /\ outcome.kind = "content"
    /\ Len(texts) = 1 /\ Len(parsed) = 2
    /\ result = <<parsed[1]>>

(* C3: when the service call fails, each invoker returns the texts it was   *)
(* given, element for element, and returns normally.                        *)
FallbackOnFailure ==
    (ipc # "start" /\ calls = 1 /\ outcome.kind \in {"raise", "none"})
        => (ipc = "returned" /\ result = texts)

\* the call raised on a list that mixes blank and non-blank texts
FallbackWitness ==
    /\ ipc = "returned" /\ outcome.kind = "raise" /\ calls = 1
    /\ Len(texts) = 3 /\ IsBlank(texts[2]) /\ ~IsBlank(texts[3])
    /\ result = texts

\* how many of texts[1..i] are not blank
Rank(i) == Cardinality({m \in 1..i : ~IsBlank(texts[m])})

(* C4: when the service returns k translations for n requested texts and    *)
(* k < n, the k translations are at the first k positions (line-based) or   *)
(* the first k non-blank positions (run-based, which requests only the      *)
(* non-blank texts), and every other position holds its own original text.  *)
PaddingSafety ==
    (ipc = "returned" /\ outcome.kind = "content") =>
        LET k == Len(parsed)
        IN  /\ (flavour = "txt" /\ k < Len(texts)) =>
                    /\ Len(result) = Len(texts)
                    /\ \A i \in 1..Len(texts) :
                          result[i] = IF i <= k THEN parsed[i] ELSE texts[i]
            /\ (flavour = "docx" /\ k < Rank(Len(texts))) =>
                    /\ Len(result) = Len(texts)
                    /\ \A i \in 1..Len(texts) :
                          result[i] = IF ~IsBlank(texts[i]) /\ Rank(i) <= k
                                      THEN Strip(parsed[Rank(i)]) ELSE texts[i]

\* one translation came back for two texts
PaddingWitness ==
    /\ ipc = "returned" /\ flavour = "txt" /\ outcome.kind = "content"
    /\ Len(texts) = 2 /\ Len(parsed) = 1
    /\ texts[1] # texts[2]
    /\ result = <<parsed[1], texts[2]>>

(* C9: in the run-based invoker every blank position keeps its input, the   *)
(* j-th parsed translation is written to the j-th non-blank position and    *)
(* nowhere else, and an all-blank list is returned unchanged.               *)
BlankPositionsIdentity ==
    (ipc = "returned" /\ flavour = "docx") =>
        /\ Len(result) = Len(texts)
        /\ \A i \in 1..Len(texts) : IsBlank(texts[i]) => result[i] = texts[i]
        /\ \A i \in 1..Len(texts) :
              ~IsBlank(texts[i]) =>
                  result[i] = IF Rank(i) <= Len(parsed) THEN Strip(parsed[Rank(i)]) ELSE texts[i]
        /\ (\A i \in 1..Len(texts) : IsBlank(texts[i])) => (result = texts /\ calls = 0)

\* a translation is written past a blank position onto the first non-blank one
BlankPositionsWitness ==
    /\ ipc = "returned" /\ flavour = "docx" /\ outcome.kind = "content"
    /\ Len(texts) = 3 /\ texts[1] = <<" ">> /\ ~IsBlank(texts[2]) /\ ~IsBlank(texts[3])
    /\ Len(parsed) = 2
    /\ result[1] = texts[1] /\ result[2] = Strip(parsed[1]) /\ result[3] = Strip(parsed[2])
    /\ result[2] # texts[2]

----------------------------------------------------------------------------
\* the positions of the log with one of these steps
At(evs) == {i \in 1..Len(log) : log[i].ev \in evs}
\* a list with a text that is not blank
SomeText(txts) == \E k \in 1..Len(txts) : ~IsBlank(txts[k])

(* C8: during a document pass every batch handed to an invoker with a text  *)
(* that is not blank costs exactly one request to the service, whether the  *)
(* request succeeds or fails; a list of blank texts only (a header of empty *)
(* paragraphs, a chunk of empty body paragraphs) costs none; and no batch   *)
(* is handed to an invoker twice.                                           *)
OneRequestPerBatchWithText ==
    /\ \A i \in At({"invoke"}) :
          log[i].requests = IF SomeText(log[i].texts) THEN 1 ELSE 0
    /\ \A i, j \in At({"invoke"}) :
          log[i].job = log[j].job /\ log[i].offset = log[j].offset => i = j

\* a finished pass that handed over a list of blank texts, at no request,
\* and a list with a text, at one request
OneRequestWitness ==
    /\ pc = "done"
    /\ \E i, j \in At({"invoke"}) :
          /\ log[i].texts # <<>> /\ ~SomeText(log[i].texts) /\ log[i].requests = 0
          /\ SomeText(log[j].texts) /\ log[j].requests = 1

\* C8 as stated: every batch handed to an invoker costs exactly one request,
\* never zero
ExactlyOneRequestPerBatch == \A i \in At({"invoke"}) : log[i].requests = 1

\* the steps of a pass that happen at most once
OnceSteps ==
    {"read", "load", "decompose", "batch", "reconstruct", "save", "convert", "watermark",
     "remove"}
Translations == {"invoke", "translate_text"}
Failures ==
    {"read_failed", "load_failed", "save_failed", "write_back_failed", "watermark_failed",
     "remove_failed"}

----------------------------------------------------------------------------
\* the files this pass has written and not removed
Written ==
    (IF out.native \in {"saved", "watermarked"} THEN {"native"} ELSE {})
    \cup (IF out.pdf \in {"converted", "watermarked", "stale_watermarked"} THEN {"pdf"} ELSE {})

(* C11: whenever a document pass ends in failure (the driver returns False) *)
(* no output file of that pass, in the input's format or converted, is left *)
(* in the translations folder.                                              *)
NoOutputForFailedDocument == pc = "failed" => Written = {}

----------------------------------------------------------------------------
(* C15: for a txt or docx document with save_as_pdf set the steps are save, *)
(* convert, watermark, remove in that order, the file in the input's format *)
(* is removed only when the conversion and the watermark both succeeded, so *)
(* a pass that returns True leaves exactly the watermarked conversion of    *)
(* this pass; without save_as_pdf nothing is converted, watermarked or      *)
(* removed and the file in the input's format remains.                      *)
PostConversionProtocol ==
    kind \in {"txt", "docx"} =>
       /\ \A i, j \in 1..Len(log) :
             i < j =>
                /\ log[j].ev = "save" => log[i].ev \notin {"convert", "watermark", "remove"}
                /\ log[j].ev = "convert" => log[i].ev \notin {"watermark", "remove"}
                /\ log[j].ev = "watermark" => log[i].ev # "remove"
       /\ At({"convert"}) # {} => At({"save"}) # {}
       /\ At({"watermark"}) # {} => At({"convert"}) # {}
       /\ At({"remove"}) # {} => At({"watermark"}) # {} /\ out.pdf = "watermarked"
       /\ pc = "done" /\ save_as_pdf => out = [native |-> "absent", pdf |-> "watermarked"]
       /\ ~save_as_pdf => At({"convert", "watermark", "remove"}) = {}
       /\ pc = "done" /\ ~save_as_pdf => out = [native |-> "saved", pdf |-> "absent"]

----------------------------------------------------------------------------
\* the positions of the log at which the service was called
ExternalCalls == {i \in At(Translations) : log[i].requests > 0}

(* C20: within one pass over a txt or docx document the driver sleeps       *)
(* between any two successive calls of the service, before the later one,   *)
(* and does not sleep after the last call of the document.                  *)
ThrottleBetweenCalls ==
    kind \in {"txt", "docx"} =>
       /\ \A i, j \in ExternalCalls :
             i < j => \E k \in At({"sleep"}) : i < k /\ k < j
       /\ \A k \in At({"sleep"}) :
             pc \in {"saved", "converted", "watermarked", "done"}
                => \E j \in ExternalCalls : k < j

----------------------------------------------------------------------------
\* the segments decomposition gave
Decomposed == parse_text_structure(input)
\* the write-back events of the log for job p
WrittenBack(p) == {i \in At({"write_back"}) : log[i].job = p}

(* C19: translation never changes the number of segments and writes each    *)
(* translation to the position its text came from.  Line-based: structures  *)
(* keeps the length decomposition gave it; leading and trailing whitespace, *)
(* is_empty and line_number never change; the content at a batched index is *)
(* the translation returned for that index once the batch is written back,  *)
(* and the decomposed content before and everywhere else.  Run-based: the   *)
(* translations written back for a paragraph list are as many as its        *)
(* paragraphs, paragraph k with a translation that is not blank holds that  *)
(* translation, and every other paragraph is as it was loaded.              *)
SegmentAlignment ==
    /\ kind = "txt" /\ pc \notin {"start", "read", "failed"} =>
          /\ Len(tree) = Len(Decomposed)
          /\ \A k \in 1..Len(tree) :
                /\ [tree[k] EXCEPT !.content = <<>>] = [Decomposed[k] EXCEPT !.content = <<>>]
                /\ \A p \in 1..Len(jobs) : \A i \in WrittenBack(p) :
                      /\ Len(log[i].texts) = Len(jobs[p].indices)
                      /\ \A m \in 1..Len(jobs[p].indices) :
                            jobs[p].indices[m] = k - 1 => tree[k].content = log[i].texts[m]
                /\ (\A p \in 1..Len(jobs) :
                       WrittenBack(p) = {} \/ \A m \in 1..Len(jobs[p].indices) :
                                                 jobs[p].indices[m] # k - 1)
                      => tree[k].content = Decomposed[k].content
    /\ kind = "docx" /\ pc \notin {"start", "failed"} =>
          \A p \in 1..Len(jobs) :
             LET before == PartParagraphs(input, jobs[p])
                 after == PartParagraphs(tree, jobs[p])
             IN  /\ Len(after) = Len(before)
                 /\ WrittenBack(p) = {} => after = before
                 /\ \A i \in WrittenBack(p) :
                       /\ Len(log[i].texts) = Len(before)
                       /\ \A k \in 1..Len(before) :
                             IF IsBlank(log[i].texts[k])
                             THEN after[k] = before[k]
                             ELSE /\ Len(after[k].runs) = 1
                                  /\ after[k].runs[1].text = log[i].texts[k]
    /\ kind = "docx" /\ pc = "translated" =>
          Len(translated) = Len(PartParagraphs(tree, jobs[job]))

\* a finished pass over a text of two batches around a blank line, both
\* translated to something else, and a finished pass over a document whose
\* body went to the service in two chunks
SegmentAlignmentWitness ==
    /\ pc = "done"
    /\ \/ /\ kind = "txt" /\ Len(jobs) = 2
          /\ \A p \in 1..2 : \E k \in 1..Len(tree) :
                /\ jobs[p].indices = <<k - 1>>
                /\ tree[k].content # Decomposed[k].content
          /\ \E k \in 1..Len(tree) : tree[k].is_empty
       \/ /\ kind = "docx"
          /\ \E i \in At({"write_back"}) :
                Len(log[i].texts) > batch_size /\ ~IsBlank(log[i].texts[batch_size + 1])

----------------------------------------------------------------------------
(* SpecRun: one run of process_translation over a list of files of the      *)
(* input folder.  A pass over one file is taken whole: it may raise at the  *)
(* load, the save, the watermark or the removal, and its conversion may     *)
(* fail without raising.  folder is the translations folder: for every      *)
(* output name the pass that wrote the file and how often it was            *)
(* watermarked.                                                             *)

\* most files in a list
MaxFiles == 2

\* the files of the input folder
Files ==
    {[stem |-> "a", ext |-> e] : e \in {"txt", "docx", "pdf", "md"}}
    \cup {[stem |-> "b", ext |-> "txt"]}
\* lists of different files
FileLists ==
    {l \in SeqsUpTo(Files, MaxFiles) : \A i, j \in 1..Len(l) : l[i] = l[j] => i = j}
\* output_file_path and pdf_file_path without the folder and the language
OutputNames == {<<f.stem, e>> : f \in Files, e \in {"txt", "docx", "pdf"}}

\* no file under a name
Absent == [there |-> FALSE, doc |-> 0, marks |-> 0]
\* the file the pass over file k of the list writes
Fresh(k) == [there |-> TRUE, doc |-> k, marks |-> 0]

\* where a pass may raise
FailurePoints == {"none", "load", "save", "watermark", "remove"}

\* translate_txt_document and translate_docx_document on file k of the list:
\* the folder afterwards and the value returned
translate_txt_or_docx_document(k, f, pdf_wanted, fo, fail, converted) ==
    LET native == <<f.stem, f.ext>>
        pdf_file == <<f.stem, "pdf">>
        saved == [fo EXCEPT ![native] = Fresh(k)]
        conv == IF converted THEN [saved EXCEPT ![pdf_file] = Fresh(k)] ELSE saved
        marked == [conv EXCEPT ![pdf_file].marks = @ + 1]
    IN  IF fail \in {"load", "save"} THEN [folder |-> fo, returned |-> FALSE]
        ELSE IF ~pdf_wanted THEN [folder |-> saved, returned |-> TRUE]
        ELSE IF fail = "watermark" \/ ~conv[pdf_file].there
        THEN [folder |-> conv, returned |-> FALSE]
        ELSE IF fail = "remove" THEN [folder |-> marked, returned |-> FALSE]
        ELSE [folder |-> [marked EXCEPT ![native] = Absent], returned |-> TRUE]

\* translate_pdf_document on file k of the list
translate_pdf_document(k, f, fo, fail) ==
    LET native == <<f.stem, f.ext>>
        saved == [fo EXCEPT ![native] = Fresh(k)]
    IN  IF fail \in {"load", "save"} THEN [folder |-> fo, returned |-> FALSE]
        ELSE IF fail = "watermark" THEN [folder |-> saved, returned |-> FALSE]
        ELSE [folder |-> [saved EXCEPT ![native].marks = @ + 1], returned |-> TRUE]

\* the name under which a pass that returns True leaves its output
OutputName(f, pdf_wanted) ==
    IF f.ext \in {"txt", "docx"} /\ pdf_wanted THEN <<f.stem, "pdf">> ELSE <<f.stem, f.ext>>

\* one call of a driver, as the run sees it
Attempt(k, f, pdf_wanted, r) ==
    [file |-> k, returned |-> r.returned, output |-> OutputName(f, pdf_wanted),
     content |-> r.folder[OutputName(f, pdf_wanted)]]

\* a line of status_message
Message(msg, k) == [msg |-> msg, file |-> k]

InitRun ==
    /\ files_selected \in BOOLEAN
    /\ target_language \in {"", "German"}
    /\ file_list \in (IF files_selected THEN FileLists ELSE {<<>>})
    /\ returned_value = <<>>
    /\ run_save_as_pdf \in BOOLEAN
    /\ next_file = 0 /\ attempts = <<>>
    /\ folder = [n \in OutputNames |-> Absent]
    /\ status_message = <<>> /\ yielded = <<>>
    /\ rpc = "start"
    /\ ParseIdle /\ BatchIdle /\ InvokeIdle /\ DriverIdle /\ ChunkIdle /\ ApplyIdle

runOthersUnchanged ==
    UNCHANGED <<parseVars, batchVars, invokeVars, driverVars, chunkVars, applyVars>>

\* the loop stops at the first pass that returns False
AfterFileStoppingAtFailure(k, returned) == IF returned THEN k + 1 ELSE Len(file_list) + 1

\* for file_name in file_list: the return value of the driver is dropped
AfterFile(k, returned) == k + 1

\* file_list is None or target_language is empty: the generator returns its
\* message as the value of the return statement and yields nothing
RunRejected ==
    /\ rpc = "start" /\ (~files_selected \/ target_language = "")
    /\ returned_value' = IF ~files_selected THEN <<Message("select_files", 0)>>
                                             ELSE <<Message("select_language", 0)>>
    /\ rpc' = "rejected"
    /\ UNCHANGED <<file_list, run_save_as_pdf, next_file, attempts, folder, status_message,
                   yielded, files_selected, target_language>>
    /\ runOthersUnchanged

\* utils.create_watermark when there is no watermark.pdf, os.makedirs when
\* there is no translations folder
RunSetup ==
    /\ rpc = "start" /\ files_selected /\ target_language # ""
    /\ rpc' = "loop"
    /\ next_file' = 1
    /\ UNCHANGED <<file_list, run_save_as_pdf, attempts, folder, status_message, yielded>>
    /\ UNCHANGED <<files_selected, target_language, returned_value>>
    /\ runOthersUnchanged

\* the set-up raises: except Exception, and the generator ends
RunSetupFails ==
    /\ rpc = "start" /\ files_selected /\ target_language # ""
    /\ rpc' = "aborted"
    /\ returned_value' = <<Message("processing_error", 0)>>
    /\ UNCHANGED <<files_selected, target_language>>
    /\ UNCHANGED <<file_list, run_save_as_pdf, next_file, attempts, folder, status_message,
                   yielded>>
    /\ runOthersUnchanged

\* the .txt and .docx branches of the loop body, then yield status_message
ProcessTxtOrDocx ==
    /\ rpc = "loop" /\ next_file <= Len(file_list)
    /\ file_list[next_file].ext \in {"txt", "docx"}
    /\ \E fail \in FailurePoints, converted \in BOOLEAN :
          LET r == translate_txt_or_docx_document(next_file, file_list[next_file],
                                                  run_save_as_pdf, folder, fail, converted)
          IN  /\ folder' = r.folder
              /\ attempts' = Append(attempts, Attempt(next_file, file_list[next_file],
                                                      run_save_as_pdf, r))
              /\ next_file' = AfterFile(next_file, r.returned)
    /\ yielded' = Append(yielded, status_message)
    /\ UNCHANGED <<file_list, run_save_as_pdf, status_message, rpc>>
    /\ UNCHANGED <<files_selected, target_language, returned_value>>
    /\ runOthersUnchanged

\* the .pdf branch of the loop body, then yield status_message
ProcessPdf ==
    /\ rpc = "loop" /\ next_file <= Len(file_list)
    /\ file_list[next_file].ext = "pdf"
    /\ \E fail \in FailurePoints \ {"remove"} :
          LET r == translate_pdf_document(next_file, file_list[next_file], folder, fail)
          IN  /\ folder' = r.folder
              /\ attempts' = Append(attempts, Attempt(next_file, file_list[next_file],
                                                      run_save_as_pdf, r))
              /\ next_file' = AfterFile(next_file, r.returned)
    /\ status_message' = status_message \o <<Message("translating_pdf", next_file),
                                              Message("completed_for", next_file)>>
    /\ yielded' = Append(yielded, status_message')
    /\ UNCHANGED <<file_list, run_save_as_pdf, rpc>>
    /\ UNCHANGED <<files_selected, target_language, returned_value>>
    /\ runOthersUnchanged

\* a file with another extension: no branch, yield status_message
ProcessOther ==
    /\ rpc = "loop" /\ next_file <= Len(file_list)
    /\ file_list[next_file].ext \notin {"txt", "docx", "pdf"}
    /\ next_file' = next_file + 1
    /\ yielded' = Append(yielded, status_message)
    /\ UNCHANGED <<file_list, run_save_as_pdf, attempts, folder, status_message, rpc>>
    /\ UNCHANGED <<files_selected, target_language, returned_value>>
    /\ runOthersUnchanged

\* after the loop: "Translation completed successfully!", the last yield
RunComplete ==
    /\ rpc = "loop" /\ next_file > Len(file_list)
    /\ status_message' = Append(status_message, Message("completed_successfully", 0))
    /\ yielded' = Append(yielded, status_message')
    /\ rpc' = "completed"
    /\ UNCHANGED <<file_list, run_save_as_pdf, next_file, attempts, folder>>
    /\ UNCHANGED <<files_selected, target_language, returned_value>>
    /\ runOthersUnchanged

NextRun ==
    \/ RunRejected \/ RunSetup \/ RunSetupFails \/ ProcessTxtOrDocx \/ ProcessPdf \/ ProcessOther
    \/ RunComplete

SpecRun == InitRun /\ [][NextRun]_vars

----------------------------------------------------------------------------
\* the files of the list the loop has gone through
Visited == 1..(next_file - 1)
\* the files of the list that have a driver
Supported == {k \in 1..Len(file_list) : file_list[k].ext \in {"txt", "docx", "pdf"}}

(* C12: process_translation goes through every file of the list once, in    *)
(* list order, and hands every file that has a driver to that driver        *)
(* exactly once; a pass that fails (at the load, the save, the watermark or *)
(* the removal, or by a failed conversion) never keeps a later file from    *)
(* its pass: a completed run has attempted them all.                        *)
EveryFileAttemptedOnce ==
    rpc \in {"loop", "completed"} =>
       /\ next_file \in 1..(Len(file_list) + 1)
       /\ rpc = "completed" => next_file = Len(file_list) + 1
       /\ \A k \in Visited \cap Supported :
             Cardinality({i \in 1..Len(attempts) : attempts[i].file = k}) = 1
       /\ \A i \in 1..Len(attempts) : attempts[i].file \in Visited \cap Supported
       /\ \A i, j \in 1..Len(attempts) : i < j => attempts[i].file < attempts[j].file
       /\ Len(yielded) = Cardinality(Visited) + (IF rpc = "completed" THEN 1 ELSE 0)

\* a completed run of two files whose first pass failed and whose second
\* pass succeeded
EveryFileWitness ==
    /\ rpc = "completed" /\ Len(attempts) = 2
    /\ ~attempts[1].returned /\ attempts[2].returned

(* C13: whenever the pass over a file returns False the status messages of  *)
(* the run hold a message that describes the failure of that file, none     *)
(* that reports the file as completed, and the run does not end with        *)
(* "completed successfully".                                                *)
FailureIsReported ==
    \A i \in 1..Len(attempts) :
       ~attempts[i].returned =>
          /\ \E j \in 1..Len(status_message) :
                status_message[j] = Message("failed", attempts[i].file)
          /\ \A j \in 1..Len(status_message) :
                status_message[j] # Message("completed_for", attempts[i].file)
          /\ rpc = "completed" =>
                status_message[Len(status_message)].msg # "completed_successfully"

(* C14: once the pass over a file has returned True, the output file it     *)
(* left in the translations folder is not overwritten, changed or removed   *)
(* by the pass over any later file of the run.                              *)
CompletedOutputsStable ==
    \A i \in 1..Len(attempts) :
       attempts[i].returned => folder[attempts[i].output] = attempts[i].content

----------------------------------------------------------------------------
(* SpecChunk: one call of pdf_translation.translate_text on a text of one   *)
(* or more chunks, every request answered by one of ChunkOutcomes.          *)

\* most chunks of a text
MaxChunks == 3

\* texts of 1..MaxChunks chunks, the last chunk one character long; a text
\* of exactly one full chunk; a text whose first chunk is blank
ChunkTexts ==
    {Letters((n - 1) * max_chunk_size + 1) : n \in 1..MaxChunks}
    \cup {Letters(max_chunk_size), [i \in 1..max_chunk_size |-> " "] \o <<"a">>}

\* what the service may answer for a chunk
ChunkOutcomes == {Raises, NoContent, Content(<<>>), Content(<<"b">>), Content(<<"c">>)}

InitChunk ==
    /\ chunk_text \in ChunkTexts
    /\ chunk_outcomes \in [1..Len(TextChunks(chunk_text)) -> ChunkOutcomes]
    /\ chunk_result = <<>>
    /\ cpc = "ready"
    /\ ParseIdle /\ BatchIdle /\ InvokeIdle /\ DriverIdle /\ RunIdle /\ ApplyIdle

\* translated_text = translate_text(client, model, text, target_language)
TranslateText ==
    /\ cpc = "ready"
    /\ chunk_result' = pdf_translate_text(chunk_text, chunk_outcomes).result
    /\ cpc' = "done"
    /\ UNCHANGED <<chunk_text, chunk_outcomes>>
    /\ UNCHANGED <<parseVars, batchVars, invokeVars, driverVars, runVars, applyVars>>

NextChunk == TranslateText

SpecChunk == InitChunk /\ [][NextChunk]_vars

\* the chunks of the text that go to the service
SentChunks ==
    SelectSeq([k \in 1..Len(TextChunks(chunk_text)) |-> k],
              LAMBDA k : ~IsBlank(TextChunks(chunk_text)[k]))

(* C16: when the service call for a chunk of the text fails, the result of  *)
(* translate_text still holds the translation of every other chunk, in      *)
(* order and joined by newlines, with the error marker in the place of the  *)
(* failed chunk only.                                                       *)
ChunkFailureIsolated ==
    cpc = "done" /\ (\A k \in 1..Len(chunk_outcomes) : chunk_outcomes[k].kind # "none") =>
       chunk_result =
          Join([m \in 1..Len(SentChunks) |->
                   IF chunk_outcomes[SentChunks[m]].kind = "content"
                   THEN chunk_outcomes[SentChunks[m]].content
                   ELSE TranslationError], "\n")

----------------------------------------------------------------------------
(* SpecApply: one call of apply_translations_to_paragraphs on a list of     *)
(* paragraphs and a list of translations.                                   *)

\* most paragraphs and most translations of a call
MaxParas == 2

\* a run with a highlight colour: "7" is yellow, "0" is the automatic colour,
\* which Python takes for false
Highlighted(run, colour) == [run EXCEPT !.highlight_color = colour]

\* paragraphs: without runs; of one run; of a blank run before the run with
\* the text, the two formatted differently; of blank runs only
ParagraphChoices ==
    {[runs |-> <<>>],
     [runs |-> <<Run(<<"x">>, "False", "Arial", "None")>>],
     [runs |-> <<Run(<<" ">>, "True", "None", "00FF00")>>],
     BlankPara, TextPara,
     [runs |-> <<Run(<<" ">>, "True", "Arial", "None"), Run(<<"x">>, "False", "None", "None")>>],
     [runs |-> <<Highlighted(Run(<<" ">>, "None", "None", "None"), "7"),
                 Highlighted(Run(<<"x">>, "None", "None", "None"), "0")>>],
     [runs |-> <<Highlighted(Run(<<>>, "None", "None", "None"), "None"),
                 Highlighted(Run(<<"x">>, "None", "None", "None"), "7"),
                 Run(<<"x">>, "True", "None", "None")>>]}

\* translations: empty, blank, a text
TranslationChoices == {<<>>, <<" ">>, <<"y">>}

InitApply ==
    /\ apply_paragraphs \in SeqsUpTo(ParagraphChoices, MaxParas)
    /\ apply_texts \in SeqsUpTo(TranslationChoices, MaxParas)
    /\ applied = <<>>
    /\ apc = "ready"
    /\ ParseIdle /\ BatchIdle /\ InvokeIdle /\ DriverIdle /\ RunIdle /\ ChunkIdle

\* apply_translations_to_paragraphs(paragraphs, translations)
Apply ==
    /\ apc = "ready"
    /\ applied' = apply_translations_to_paragraphs(apply_paragraphs, apply_texts)
    /\ apc' = "done"
    /\ UNCHANGED <<apply_paragraphs, apply_texts>>
    /\ UNCHANGED <<parseVars, batchVars, invokeVars, driverVars, runVars, chunkVars>>

NextApply == Apply

SpecApply == InitApply /\ [][NextApply]_vars

\* the attributes of a run that the reassembly carries over
Attributes ==
    {"bold", "italic", "underline", "font_name", "font_size", "font_color", "highlight_color"}
\* the positions that have both a paragraph and a translation
Zipped == 1..Min({Len(apply_paragraphs), Len(apply_texts)})
\* the runs of a paragraph whose text is not blank
Meaningful(paragraph) == {r \in 1..Len(paragraph.runs) : ~IsBlank(paragraph.runs[r].text)}

(* C17: after apply_translations_to_paragraphs every paragraph that has a   *)
(* run and whose translation is not blank has exactly one run, the text of  *)
(* that run is the translation, and every attribute that was not null on    *)
(* the first run with text of the original paragraph has that value on the  *)
(* run that is left.                                                        *)
RunReassembly ==
    apc = "done" =>
       \A k \in Zipped :
          apply_paragraphs[k].runs # <<>> /\ ~IsBlank(apply_texts[k]) =>
             /\ Len(applied[k].runs) = 1
             /\ applied[k].runs[1].text = apply_texts[k]
             /\ \A r \in Meaningful(apply_paragraphs[k]) :
                   r = Min(Meaningful(apply_paragraphs[k])) =>
                      \A a \in Attributes :
                         apply_paragraphs[k].runs[r][a] # "None"
                            => applied[k].runs[1][a] = apply_paragraphs[k].runs[r][a]

(* C18: apply_translations_to_paragraphs leaves every paragraph whose       *)
(* translation is empty or blank as it was, runs, texts and formatting,     *)
(* whatever the other paragraphs of the call get.                           *)
BlankTranslationUntouched ==
    apc = "done" =>
       /\ Len(applied) = Len(apply_paragraphs)
       /\ \A k \in Zipped : IsBlank(apply_texts[k]) => applied[k] = apply_paragraphs[k]

\* a call that left a paragraph of two runs with a blank translation alone
\* and rewrote the paragraph next to it
BlankTranslationWitness ==
    /\ apc = "done"
    /\ \E k, j \in Zipped :
          /\ apply_texts[k] = <<" ">> /\ Len(apply_paragraphs[k].runs) = 2
          /\ applied[k] = apply_paragraphs[k]
          /\ ~IsBlank(apply_texts[j]) /\ applied[j] # apply_paragraphs[j]

----------------------------------------------------------------------------
\* the texts of a list that go to the service: those that are not blank
SentTexts(txts) == SelectSeq(txts, LAMBDA t : ~IsBlank(t))
\* the texts of the invoker calls for job p, in the order of the calls
RECURSIVE CallTexts(_, _)
CallTexts(p, n) ==
    IF n = 0 THEN <<>>
    ELSE CallTexts(p, n - 1)
         \o (IF log[n].ev = "invoke" /\ log[n].job = p THEN log[n].texts ELSE <<>>)

(* C21: in a pass over a docx document every list of texts sent to the      *)
(* service (body, table cells, header, footer) holds at most 20 texts, and  *)
(* the lists handed over for one paragraph list are consecutive, in the     *)
(* original order, and together exactly the texts of that paragraph list.   *)
RunBasedCountBudget ==
    kind = "docx" =>
       /\ \A i \in At({"invoke"}) : Len(SentTexts(log[i].texts)) <= batch_size
       /\ \A p \in 1..Len(jobs) :
             WrittenBack(p) # {} =>
                CallTexts(p, Len(log))
                   = collect_paragraph_texts(PartParagraphs(input, jobs[p]))

----------------------------------------------------------------------------
\* the sizes of the batches
BatchSizes == [b \in 1..Len(batches) |-> Len(batches[b].texts)]

(* C22: group_structures_for_translation starts a new batch only at an      *)
(* empty segment or when the next segment would bring the cumulative length *)
(* of the batch in progress strictly above 3000; a segment that brings it   *)
(* to exactly 3000 stays in the batch, so four segments of 1000 characters  *)
(* without a blank line give batches of 3 and 1 segments.                   *)
GreedyInclusiveBoundary ==
    bpc = "done" =>
       /\ \A b \in 1..Len(batches) - 1 :
             LET last == batches[b].indices[Len(batches[b].indices)]
                 first == batches[b + 1].indices[1]
             IN  \/ \E k \in last + 1..first - 1 : SegBlank(k + 1)
                 \/ TotalLen(batches[b].texts) + Len(segs[first + 1].content)
                       > max_batch_length
       /\ (/\ Len(segs) = 4
           /\ \A k \in 1..4 :
                 ~SegBlank(k) /\ Len(segs[k].content) = max_batch_length \div 3)
             => BatchSizes = <<3, 1>>

\* four segments of 1000 characters, grouped: the third filled the first
\* batch to exactly 3000 and the fourth opened the second
GreedyBoundaryWitness ==
    /\ bpc = "done"
    /\ Len(segs) = 4
    /\ \A k \in 1..4 : ~SegBlank(k) /\ Len(segs[k].content) = max_batch_length \div 3
    /\ BatchSizes = <<3, 1>>
    /\ TotalLen(batches[1].texts) = max_batch_length

----------------------------------------------------------------------------
(* SpecEcho: one call of txt_translation.translate_text_batch on a batch of *)
(* stripped texts with content, the service answering with the texts        *)
(* themselves, one per line.                                                *)

\* most texts of a batch
MaxEchoTexts == 2

\* lines as the decomposition hands them on: a word, words, a numbered item
\* with and without a space, a bare number with its point, a number before a
\* word, a number with its point at the end
EchoTextChoices ==
    {<<"x">>, <<"x", " ", "y">>, <<"1", ".", "x">>, <<"1", ".", " ", "x">>, <<"1", ".">>,
     <<"2", "x">>, <<"x", "1", ".">>}

\* the answer of a service that translates nothing: the texts, one per line
Echo(txts) == Content(Join(txts, "\n"))

InitEcho ==
    /\ flavour = "txt"
    /\ texts \in SeqsUpTo(EchoTextChoices, MaxEchoTexts) \ {<<>>}
    /\ outcome = NoCall
    /\ parsed = <<>>
    /\ result = <<>>
    /\ calls = 0
    /\ ipc = "start"
    /\ ParseIdle /\ BatchIdle /\ DriverIdle /\ LaterIdle

\* translate_text_batch(client, model, texts, target_language), answered by Echo
TxtEcho ==
    /\ ipc = "start" /\ flavour = "txt"
    /\ Returned(txt_translate_text_batch(texts, Echo(texts)), Echo(texts))

NextEcho == TxtEcho

SpecEcho == InitEcho /\ [][NextEcho]_vars

(* C23: when the service answers with exactly the input texts, one per line *)
(* and in the same order, txt_translation.translate_text_batch returns a    *)
(* list equal to its input, for every batch of stripped texts with content. *)
EchoTransparency ==
    ipc = "returned" /\ outcome = Echo(texts) => result = texts

----------------------------------------------------------------------------
\* the messages of every status yielded so far
Surfaced == UNION {{yielded[i][j] : j \in 1..Len(yielded[i])} : i \in 1..Len(yielded)}

(* C24: when process_translation is called without a file list or with an   *)
(* empty target language it processes no file, calls no driver, and the     *)
(* status sequence it yields holds the message for that case ("Please       *)
(* select one or more files first." or "Please select a target language."). *)
InputValidationOutcome ==
    /\ ~files_selected \/ target_language = "" =>
          /\ attempts = <<>> /\ next_file = 0
          /\ folder = [n \in OutputNames |-> Absent]
    /\ rpc = "rejected" =>
          /\ ~files_selected => Message("select_files", 0) \in Surfaced
          /\ files_selected => Message("select_language", 0) \in Surfaced

====
